---- MODULE Spec2Model ----
(***************************************************************************)
(* A model of the predicates of the optimized octagon domain of ELINA      *)
(* (src/elina/elina_oct/opt_oct_predicate.c) and of the matrix             *)
(* initialisers of opt_oct_hmat.h.                                         *)
(*                                                                         *)
(* Bounds are IEEE doubles in the code.  The model keeps them in fixed     *)
(* point: a bound b is the integer b * Unit, and +oo is INFINITY.  All the *)
(* constants the model feeds in are integers, so every sum, minimum and    *)
(* halving of the code is exact in this representation.                    *)
(***************************************************************************)
EXTENDS Integers, Sequences, FiniteSets, TLC

VARIABLES
    walk,   \* the position of the dense walk of to_lincons_array
    oct,    \* the octagon value the predicates are called on
    oct2,   \* the second operand of is_leq and is_eq
    man,    \* the manager: per-function algorithm, num_incomplete, result flags
    call,   \* the last call: function, arguments and what it left behind
    cons,   \* history: the constraints met into oct since top
    seen    \* history: an earlier call of a query, to compare a later one with

vars == <<walk, oct, oct2, man, call, cons, seen>>

(***************************** bounds ***************************************)
\* largest dimension whose dense half-matrix is walked
MaxWalkDim == 5
\* largest number of variables of an octagon value
MaxDim == 2
\* largest number of constraints met into a value
MaxCons == 2
\* largest number of integer variables of a value
MaxIntDim == 1
\* largest constant of a constraint met into a value
MaxMeetConst == 1
\* largest constant of a constraint or interval asked about
MaxAskConst == 1

(************************ bound arithmetic **********************************)
\* the fixed-point unit: 1.0 is Unit
Unit == 4
\* +oo of the doubles; larger than every finite bound the model builds
INFINITY == 100000

\* a + b on doubles, for a, b > -oo
BAdd(a, b) == IF a = INFINITY \/ b = INFINITY THEN INFINITY ELSE a + b
\* a / 2 on doubles
BHalf(a) == IF a = INFINITY THEN INFINITY ELSE a \div 2
BMin(a, b) == IF a <= b THEN a ELSE b

(************************* matrix index *************************************)
\* i ^ 1 and i | 1 on literal indices
Xor1(i) == IF i % 2 = 0 THEN i + 1 ELSE i - 1
Or1(i) == IF i % 2 = 0 THEN i + 1 ELSE i

\* number of slots of a half-matrix of dim variables
opt_matsize(dim) == 2 * dim * (dim + 1)

\* offset of (i,j), j <= i|1.  The code of opt_matpos is not part of the
\* sources at hand; the closed form is the row-major numbering of the stored
\* pairs, rows 2k and 2k+1 holding 2k+2 slots each.
opt_matpos(i, j) == j + ((i + 1) * (i + 1)) \div 2

\* offset of (i,j), any i, j: the slot of the coherent pair (j^1, i^1) when
\* (i,j) itself is not stored
opt_matpos2(i, j) == IF j > i THEN opt_matpos(Xor1(j), Xor1(i)) ELSE opt_matpos(i, j)

Lits(dim) == 0 .. (2 * dim - 1)
\* the pairs of literals a half-matrix stores
Stored(dim) == {p \in Lits(dim) \X Lits(dim) : p[2] <= Or1(p[1])}

(***************************** matrices *************************************)
\* the pair of literals stored at each offset
PairAt == [p \in 0 .. (opt_matsize(MaxDim) - 1) |->
             CHOOSE q \in Stored(MaxDim) : opt_matpos(q[1], q[2]) = p]

\* a value computed once and kept, as a C buffer is
Buffer(f) == IF f = f THEN f ELSE f

NULL == [is_null |-> TRUE]
\* opt_oct_mat_t: the buffer, the dense flag and the partition.  acl is the
\* list of components, each the list of its variables
MkMat(buf, dense, acl) ==
    [is_null |-> FALSE, mat |-> buf, is_dense |-> dense, acl |-> acl]

Vars(dim) == 0 .. (dim - 1)
CompSet(cl) == {cl[x] : x \in DOMAIN cl}
\* find: the index in acl of the component holding v, 0 for NULL
find(acl, v) ==
    IF \E x \in DOMAIN acl : v \in CompSet(acl[x])
    THEN CHOOSE x \in DOMAIN acl :
            /\ v \in CompSet(acl[x])
            /\ \A y \in DOMAIN acl : v \in CompSet(acl[y]) => x <= y
    ELSE 0
is_connected(acl, u, v) == find(acl, u) # 0 /\ find(acl, u) = find(acl, v)

\* to_sorted_array: the members of a component in ascending order
RECURSIVE SortedSeq(_)
SortedSeq(S) ==
    IF S = {} THEN <<>>
    ELSE LET lo == CHOOSE x \in S : \A y \in S : x <= y
         IN <<lo>> \o SortedSeq(S \ {lo})
to_sorted_array(cl) == SortedSeq(CompSet(cl))

\* m[opt_matpos2(i,j)]
At(buf, i, j) == buf[opt_matpos2(i, j)]

\* opt_hmat_alloc_top: zero diagonal, +oo elsewhere, no component
TopBuf(dim) ==
    [p \in 0 .. (opt_matsize(dim) - 1) |->
        IF PairAt[p][1] = PairAt[p][2] THEN 0 ELSE INFINITY]

(************************** strong closure **********************************)
\* the slots whose two variables are both in V
InBlock(p, V) == PairAt[p][1] \div 2 \in V /\ PairAt[p][2] \div 2 \in V

\* shortest-path step for pivot k: m[i,j] := min(m[i,j], m[i,k] + m[k,j]) for
\* all (i,j); the slot of (i,j) is also the slot of (j^1,i^1), whose update
\* reads the path through k^1
PivotStep(buf, k, V) ==
    Buffer([p \in DOMAIN buf |->
        IF ~InBlock(p, V) THEN buf[p]
        ELSE LET i == PairAt[p][1]
                 j == PairAt[p][2]
             IN BMin(buf[p],
                     BMin(BAdd(At(buf, i, k), At(buf, k, j)),
                          BAdd(At(buf, i, Xor1(k)), At(buf, Xor1(k), j))))])

\* strengthening: m[i,j] := min(m[i,j], (m[i,i^1] + m[j^1,j]) / 2)
StrengthStep(buf, V) ==
    Buffer([p \in DOMAIN buf |->
        IF ~InBlock(p, V) THEN buf[p]
        ELSE LET i == PairAt[p][1]
                 j == PairAt[p][2]
             IN BMin(buf[p],
                     BHalf(BAdd(At(buf, i, Xor1(i)), At(buf, Xor1(j), j))))])

\* a diagonal entry < 0 signals the empty octagon
NegDiag(buf, V) == \E v \in V : At(buf, 2 * v, 2 * v) < 0 \/ At(buf, 2 * v + 1, 2 * v + 1) < 0

\* final pass: the diagonal is rounded to 0
ZeroDiag(buf, V) ==
    [p \in DOMAIN buf |->
        IF InBlock(p, V) /\ PairAt[p][1] = PairAt[p][2] THEN 0 ELSE buf[p]]

\* the two pivots of variable k, then the strengthening
PivotVar(buf, k, V) ==
    StrengthStep(PivotStep(PivotStep(buf, 2 * k, V), 2 * k + 1, V), V)

\* the pivots of the variables ks (ascending), strengthening after each
\* variable, stopping at the first negative diagonal (bounds only decrease,
\* so a negative diagonal stays negative through the steps of a variable)
RECURSIVE ClosePivots(_, _, _)
CloseRest(b, ks, V) ==
    IF NegDiag(b, V) THEN [empty |-> TRUE, mat |-> b] ELSE ClosePivots(b, ks, V)
ClosePivots(buf, ks, V) ==
    IF ks = <<>> THEN [empty |-> FALSE, mat |-> ZeroDiag(buf, V)]
    ELSE CloseRest(PivotVar(buf, Head(ks), V), Tail(ks), V)

\* strong closure of the block of the variables V
CloseBlock(buf, V) == ClosePivots(buf, SortedSeq(V), V)

\* the sparse variant: each component on its own, the partition kept
RECURSIVE CloseComps(_, _, _)
CloseCompsRest(r, acl, x) == IF r.empty THEN r ELSE CloseComps(r.mat, acl, x)
CloseComps(buf, acl, x) ==
    IF x > Len(acl) THEN [empty |-> FALSE, mat |-> buf]
    ELSE CloseCompsRest(CloseBlock(buf, CompSet(acl[x])), acl, x + 1)

\* opt_hmat_strong_closure: closes oo in place, TRUE when empty
opt_hmat_strong_closure(oo, dim) ==
    IF oo.is_dense THEN CloseBlock(oo.mat, Vars(dim))
    ELSE CloseComps(oo.mat, oo.acl, 1)

\* opt_oct_cache_closure: o->closed is computed from o->m unless it is there
\* or o is empty; an empty closure nulls both matrices
CacheOf(o, r) ==
    IF r.empty THEN [o EXCEPT !.m = NULL, !.closed = NULL]
    ELSE [o EXCEPT !.closed = [o.m EXCEPT !.mat = r.mat]]
opt_oct_cache_closure(o) ==
    IF ~o.closed.is_null \/ o.m.is_null THEN o
    ELSE CacheOf(o, opt_hmat_strong_closure(o.m, o.dim))


(*********************** matrix initialisers ********************************)
\* m[opt_matpos2(i,j)] = v
Put(buf, i, j, v) == [buf EXCEPT ![opt_matpos2(i, j)] = v]

\* an ini_relation that resets one diagonal entry of the two
ini_relation_one_diagonal(buf, i, j, dim) ==
    IF i >= dim \/ j >= dim THEN buf
    ELSE [buf EXCEPT ![opt_matpos2(2 * i, 2 * j)] = IF i = j THEN 0 ELSE INFINITY]

\* ini_relation: the four bounds between the variables i and j are reset
ini_relation(buf, i, j, dim) ==
    IF i >= dim \/ j >= dim THEN buf
    ELSE LET d == IF i = j THEN 0 ELSE INFINITY
             b1 == Put(buf, 2 * i, 2 * j, d)
             b2 == Put(b1, 2 * i + 1, 2 * j + 1, d)
             b3 == Put(b2, 2 * i, 2 * j + 1, INFINITY)
         IN Put(b3, 2 * i + 1, 2 * j, INFINITY)

\* ini_self_relation: the bounds of variable i alone are reset
ini_self_relation(buf, i, dim) ==
    IF i >= dim THEN buf
    ELSE LET b1 == Put(buf, 2 * i, 2 * i, 0)
             b2 == Put(b1, 2 * i + 1, 2 * i + 1, 0)
             b3 == Put(b2, 2 * i, 2 * i + 1, INFINITY)
         IN Put(b3, 2 * i + 1, 2 * i, INFINITY)

\* ini_comp_elem_relation: ini_relation(m,i,j) for every i # j of cl1
RECURSIVE ini_comp_elem_relation(_, _, _, _)
ini_comp_elem_relation(buf, cl1, j, dim) ==
    IF cl1 = <<>> THEN buf
    ELSE ini_comp_elem_relation(
             IF Head(cl1) # j THEN ini_relation(buf, Head(cl1), j, dim) ELSE buf,
             Tail(cl1), j, dim)

\* ini_comp_relations: ini_relation(m,i,j) for every i of cl1, j of cl2, i # j
RECURSIVE ini_comp_relations(_, _, _, _)
ini_comp_relations(buf, cl1, cl2, dim) ==
    IF cl1 = <<>> THEN buf
    ELSE ini_comp_relations(ini_comp_elem_relation(buf, cl2, Head(cl1), dim),
                            Tail(cl1), cl2, dim)

\* handle_binary_relation: the bounds between i and j, and between their
\* components, are reset before i and j are related
handle_binary_relation(buf, acl, i, j, dim) ==
    LET li == find(acl, i)
        lj == find(acl, j)
    IN IF li = 0
       THEN LET b1 == ini_relation(buf, i, i, dim)
            IN IF lj = 0
               THEN ini_relation(ini_relation(b1, j, j, dim), i, j, dim)
               ELSE ini_comp_elem_relation(b1, acl[lj], i, dim)
       ELSE IF lj = 0
            THEN ini_comp_elem_relation(ini_relation(buf, j, j, dim), acl[li], j, dim)
            ELSE IF li # lj
                 THEN ini_comp_relations(buf, acl[li], acl[lj], dim)
                 ELSE buf

(********************** linear expressions **********************************)
ConsTypes == {"EQ", "SUPEQ", "SUP", "EQMOD", "DISEQ"}

\* elina_linexpr0_t: coefficients coef[1..dim] of X_0..X_{dim-1}, constant
\* interval [inf, sup]; conv tells that its scalars do not convert exactly
MkLinexpr(coef, inf, sup, conv) ==
    [coef |-> coef, inf |-> inf, sup |-> sup, conv |-> conv]
MkLincons(typ, e) == [constyp |-> typ, linexpr0 |-> e]

NonZero(e) == {v \in 0 .. (Len(e.coef) - 1) : e.coef[v + 1] # 0}
FirstOf(S) == CHOOSE x \in S : \A y \in S : x <= y
LastOf(S) == CHOOSE x \in S : \A y \in S : y <= x

\* opt_oct_uexpr_of_linexpr: the shape of e, its variables and signs, and
\* the constant [-a, b] left in tmp = <<a, b>>
opt_oct_uexpr_of_linexpr(e, intdim, dim) ==
    LET nz == NonZero(e)
        unit == \A v \in nz : e.coef[v + 1] \in {1, -1}
        i == IF nz = {} THEN 0 ELSE FirstOf(nz)
        j == IF nz = {} THEN 0 ELSE LastOf(nz)
        typ == IF e.inf > e.sup THEN "EMPTY"
               ELSE IF nz = {} THEN "ZERO"
               ELSE IF Cardinality(nz) = 1 /\ unit THEN "UNARY"
               ELSE IF Cardinality(nz) = 2 /\ unit THEN "BINARY"
               ELSE "OTHER"
    IN [type |-> typ, i |-> i, j |-> j,
        coef_i |-> e.coef[i + 1], coef_j |-> e.coef[j + 1],
        tmp |-> <<-(e.inf * Unit), e.sup * Unit>>,
        conv |-> e.conv]

\* the value of e at the point pt (pt[v+1] is X_v in fixed point), for a
\* scalar constant
RECURSIVE Dot(_, _, _)
Dot(coef, pt, n) == IF n = 0 THEN 0 ELSE coef[n] * pt[n] + Dot(coef, pt, n - 1)
ValueAt(e, pt) == Dot(e.coef, pt, Len(e.coef)) + e.sup * Unit

\* the constraint holds at pt
Holds(lc, pt) ==
    CASE lc.constyp = "SUPEQ" -> ValueAt(lc.linexpr0, pt) >= 0
      [] lc.constyp = "SUP" -> ValueAt(lc.linexpr0, pt) > 0
      [] lc.constyp = "EQ" -> ValueAt(lc.linexpr0, pt) = 0
      [] OTHER -> FALSE

(************************** adding constraints ******************************)
\* the partition after i (and j) have been related: a fresh component, an
\* insertion, or the union of two components; the members stay sorted
Relate(acl, i, j) ==
    LET li == find(acl, i)
        lj == find(acl, j)
        merged == SortedSeq({i, j}
                      \cup (IF li = 0 THEN {} ELSE CompSet(acl[li]))
                      \cup (IF lj = 0 THEN {} ELSE CompSet(acl[lj])))
        rest == SelectSeq([x \in DOMAIN acl |-> IF x = li \/ x = lj THEN <<>> ELSE acl[x]],
                          LAMBDA cl : cl # <<>>)
    IN <<merged>> \o rest

\* opt_hmat_add_lincons for one constraint e >= 0 or e = 0 of UNARY or BINARY
\* shape: the bound(s) of e are lowered in oo
opt_hmat_add_lincons(oo, lc, intdim, dim) ==
    LET u == opt_oct_uexpr_of_linexpr(lc.linexpr0, intdim, dim)
        ui == IF u.coef_i = 1 THEN 2 * u.i ELSE 2 * u.i + 1
        uj == IF u.coef_j = 1 THEN 2 * u.j ELSE 2 * u.j + 1
        eq == lc.constyp = "EQ"
        b0 == IF oo.is_dense THEN oo.mat
              ELSE IF u.type = "UNARY"
                   THEN IF find(oo.acl, u.i) = 0
                        THEN ini_self_relation(oo.mat, u.i, dim) ELSE oo.mat
                   ELSE handle_binary_relation(oo.mat, oo.acl, u.i, u.j, dim)
        acl == IF oo.is_dense THEN oo.acl ELSE Relate(oo.acl, u.i, u.j)
        Low(buf, r, c, v) == Put(buf, r, c, BMin(At(buf, r, c), v))
        b1 == IF u.type = "UNARY"
              THEN Low(b0, ui, Xor1(ui), 2 * u.tmp[2])
              ELSE Low(b0, uj, Xor1(ui), u.tmp[2])
        b2 == IF ~eq THEN b1
              ELSE IF u.type = "UNARY"
                   THEN Low(b1, Xor1(ui), ui, 2 * u.tmp[1])
                   ELSE Low(b1, Xor1(uj), ui, u.tmp[1])
    IN MkMat(b2, oo.is_dense, acl)


(***************************** the manager **********************************)
FunIds == {"IS_BOTTOM", "IS_TOP", "IS_LEQ", "IS_EQ", "TO_BOX", "BOUND_DIMENSION",
           "TO_LINCONS_ARRAY", "SAT_INTERVAL", "IS_DIMENSION_UNCONSTRAINED",
           "SAT_LINCONS"}

\* what a predicate leaves behind: its result, the value (a closure may have
\* been cached), the manager's result flags, the pairs (i,j) whose bound the
\* predicate read from the buffer, and the temporaries it did not release.
\* opt_oct_init_from_manager sets both flags at entry; flag_incomplete,
\* flag_algo and flag_conv clear both
Result(r, o, exact, best, reads, live) ==
    [ret |-> r, o |-> o, flag_exact |-> exact, flag_best |-> best,
     reads |-> reads, live |-> live]
Plain(r, o, reads) == Result(r, o, TRUE, TRUE, reads, {})
Flagged(r, o, reads) == Result(r, o, FALSE, FALSE, reads, {})
\* a result whose flags are cleared when cond holds
FlagIf(cond, r, o, reads) == IF cond THEN Flagged(r, o, reads) ELSE Plain(r, o, reads)

\* o->closed ? o->closed : o->m
Pick(o) == IF ~o.closed.is_null THEN o.closed ELSE o.m
IsEmpty(o) == o.closed.is_null /\ o.m.is_null

\* a closure step that is never taken
AutoClose_never(alg, o) == o

\* if (pr->funopt->algorithm>=0) opt_oct_cache_closure(pr,o)
AutoClose(alg, o) == IF alg >= 0 THEN opt_oct_cache_closure(o) ELSE o

\* the logical bound of (i,j): in sparse mode the bounds between variables
\* of different components, or of no component, are those of top
Bound(oo, i, j) ==
    IF oo.is_dense \/ is_connected(oo.acl, i \div 2, j \div 2) THEN At(oo.mat, i, j)
    ELSE IF i = j THEN 0 ELSE INFINITY

\* convert_to_dense_mat: the out-of-component entries are materialised
convert_to_dense_mat(oo, dim) ==
    MkMat([p \in 0 .. (opt_matsize(dim) - 1) |-> Bound(oo, PairAt[p][1], PairAt[p][2])],
          TRUE, <<>>)

(************************ is_bottom, is_top *********************************)
\* an is_bottom that empties the value it is asked about
opt_oct_is_bottom_emptying(alg, ni, o) ==
    Plain(TRUE, [o EXCEPT !.m = NULL, !.closed = NULL], {})

\* opt_oct_is_bottom after the closure step
IsBottomOf(ni, o1) ==
    IF ~o1.closed.is_null THEN FlagIf(ni \/ o1.intdim > 0, FALSE, o1, {})
    ELSE IF o1.m.is_null THEN Plain(TRUE, o1, {})
    ELSE Flagged(FALSE, o1, {})

opt_oct_is_bottom(alg, ni, o) == IsBottomOf(ni, AutoClose(alg, o))

\* is_top_half: zero diagonal and +oo elsewhere
is_top_half(oo, dim) ==
    \A q \in Stored(dim) : Bound(oo, q[1], q[2]) = (IF q[1] = q[2] THEN 0 ELSE INFINITY)

opt_oct_is_top(o) ==
    LET oo == IF ~o.m.is_null THEN o.m ELSE o.closed
    IN IF oo.is_null THEN Plain(FALSE, o, {})
       ELSE Plain(is_top_half(oo, o.dim), o, {})

(************************** is_leq, is_eq ***********************************)
is_lequal_half(oo1, oo2, dim) ==
    \A q \in Stored(dim) : Bound(oo1, q[1], q[2]) <= Bound(oo2, q[1], q[2])
is_equal_half(oo1, oo2, dim) ==
    \A q \in Stored(dim) : Bound(oo1, q[1], q[2]) = Bound(oo2, q[1], q[2])

\* the results of the binary predicates carry both operands
Result2(r, o1, o2, flagged) ==
    [ret |-> r, o |-> o1, o2 |-> o2, flag_exact |-> ~flagged, flag_best |-> ~flagged,
     reads |-> {}, live |-> {}]

\* an is_leq that caches the closure before it compares the dimensions
opt_oct_is_leq_closing_first(alg, ni, o1, o2) ==
    Result2(FALSE, AutoClose(alg, o1), o2, FALSE)

\* opt_oct_is_leq after the closure step
IsLeqOf(ni, a1, o2) ==
    IF IsEmpty(a1) THEN Result2(TRUE, a1, o2, FALSE)
    ELSE IF IsEmpty(o2)
         THEN IF ~a1.closed.is_null
              THEN Result2(FALSE, a1, o2, ni \/ a1.intdim > 0)
              ELSE Result2(FALSE, a1, o2, TRUE)
         ELSE Result2(is_lequal_half(Pick(a1), Pick(o2), a1.dim), a1, o2, FALSE)

opt_oct_is_leq(alg, ni, o1, o2) ==
    IF o1.dim # o2.dim \/ o1.intdim # o2.intdim THEN Result2(FALSE, o1, o2, FALSE)
    ELSE IsLeqOf(ni, AutoClose(alg, o1), o2)

\* opt_oct_is_eq after the closure step
IsEqOf(ni, a1, a2) ==
    IF IsEmpty(a1)
    THEN IF IsEmpty(a2) THEN Result2(TRUE, a1, a2, FALSE)
         ELSE IF ~a2.closed.is_null
              THEN Result2(FALSE, a1, a2, ni \/ a1.intdim > 0)
              ELSE Result2(FALSE, a1, a2, TRUE)
    ELSE IF IsEmpty(a2)
         THEN IF ~a1.closed.is_null
              THEN Result2(FALSE, a1, a2, ni \/ a1.intdim > 0)
              ELSE Result2(FALSE, a1, a2, TRUE)
         ELSE Result2(is_equal_half(Pick(a1), Pick(a2), a1.dim), a1, a2, FALSE)

\* an is_eq that closes its first operand alone
opt_oct_is_eq_closing_first(alg, ni, o1, o2) ==
    IF o1.dim # o2.dim \/ o1.intdim # o2.intdim THEN Result2(FALSE, o1, o2, FALSE)
    ELSE IsEqOf(ni, AutoClose(alg, o1), o2)

opt_oct_is_eq(alg, ni, o1, o2) ==
    IF o1.dim # o2.dim \/ o1.intdim # o2.intdim THEN Result2(FALSE, o1, o2, FALSE)
    ELSE IsEqOf(ni, AutoClose(alg, o1), AutoClose(alg, o2))

(******************************* to_box *************************************)
\* elina_interval_t in fixed point; bottom is [1, -1], top is [-oo, +oo]
Itv(inf, sup) == [inf |-> inf, sup |-> sup]
ItvBottom == Itv(Unit, -Unit)
ItvTop == Itv(-INFINITY, INFINITY)
\* opt_interval_of_bounds(pr, i, minf, sup, true): [-minf/2, sup/2]
opt_interval_of_bounds(minf, sup) == Itv(-BHalf(minf), BHalf(sup))

\* the pairs read for the interval of variable v
SelfPairs(v) == {<<2 * v, 2 * v + 1>>, <<2 * v + 1, 2 * v>>}
\* the two bounds taken in the other order
SelfItv_swapped(buf, v) ==
    opt_interval_of_bounds(buf[opt_matpos(2 * v + 1, 2 * v)], buf[opt_matpos(2 * v, 2 * v + 1)])
\* m[opt_matpos(2v,2v+1)], m[opt_matpos(2v+1,2v)] as an interval
SelfItv(buf, v) ==
    opt_interval_of_bounds(buf[opt_matpos(2 * v, 2 * v + 1)], buf[opt_matpos(2 * v + 1, 2 * v)])

\* every variable taken for a member of a component
InComps_all(acl) == Vars(MaxDim)
\* the variables of all the components
InComps(acl) == UNION {CompSet(acl[x]) : x \in DOMAIN acl}

\* the variables whose interval is read from oo: all of them in a dense
\* matrix, those of the components in a sparse one
BoxVars(oo, dim) == IF oo.is_dense THEN Vars(dim) ELSE InComps(oo.acl)

\* opt_oct_to_box after the closure step
ToBoxOf(ni, conv, o1) ==
    IF IsEmpty(o1)
    THEN Plain([v \in Vars(o1.dim) |-> ItvBottom], o1, {})
    ELSE Result([v \in Vars(o1.dim) |->
                    IF v \in BoxVars(Pick(o1), o1.dim)
                    THEN SelfItv(Pick(o1).mat, v) ELSE ItvTop],
                o1, FALSE,
                ~(o1.closed.is_null \/ ni \/ o1.intdim > 0 \/ conv),
                UNION {SelfPairs(v) : v \in BoxVars(Pick(o1), o1.dim)}, {})

opt_oct_to_box(alg, ni, conv, o) == ToBoxOf(ni, conv, AutoClose(alg, o))

(*************************** bound_dimension ********************************)
\* the interval of variable v in oo, and the pairs read for it
DimItv(oo, v) ==
    IF ~oo.is_dense /\ find(oo.acl, v) = 0 THEN ItvTop ELSE SelfItv(oo.mat, v)
DimReads(oo, v) ==
    IF ~oo.is_dense /\ find(oo.acl, v) = 0 THEN {} ELSE SelfPairs(v)

\* opt_oct_bound_dimension after the closure step
BoundDimensionOf(ni, conv, o1, dim) ==
    IF IsEmpty(o1) THEN Plain(ItvBottom, o1, {})
    ELSE IF ~o1.closed.is_null
         THEN FlagIf(ni \/ o1.intdim > 0 \/ conv,
                     DimItv(o1.closed, dim), o1, DimReads(o1.closed, dim))
         ELSE Flagged(DimItv(o1.m, dim), o1, DimReads(o1.m, dim))

opt_oct_bound_dimension(alg, ni, conv, o, dim) ==
    IF dim >= o.dim THEN Plain("NULL", o, {})
    ELSE BoundDimensionOf(ni, conv, AutoClose(alg, o), dim)

(***************************** sat_interval *********************************)
\* the flags of a negative answer: definitive only on Q, closed, no
\* conversion error
Inexact(ni, conv, o) == ni \/ o.intdim > 0 \/ o.closed.is_null \/ conv

\* the interval b is within i
ItvLeq(b, i) == b.inf >= i.inf /\ b.sup <= i.sup

\* opt_oct_sat_interval after the closure step
SatIntervalOf(ni, conv, o1, dim, i) ==
    IF IsEmpty(o1) THEN Plain(TRUE, o1, {})
    ELSE IF ItvLeq(DimItv(Pick(o1), dim), i)
         THEN Plain(TRUE, o1, DimReads(Pick(o1), dim))
         ELSE FlagIf(Inexact(ni, conv, o1), FALSE, o1, DimReads(Pick(o1), dim))

opt_oct_sat_interval(alg, ni, conv, o, dim, i) ==
    IF dim >= o.dim THEN Plain(FALSE, o, {})
    ELSE SatIntervalOf(ni, conv, AutoClose(alg, o), dim, i)


(*********************** is_dimension_unconstrained *************************)
\* the bounds the loops test, in the order they test them.  Sparse: the
\* members j1 of dim's component, ascending
RECURSIVE SparseProbes(_, _)
SparseProbes(ca, dim) ==
    IF ca = <<>> THEN <<>>
    ELSE LET j1 == Head(ca)
             d2 == 2 * dim
         IN (IF j1 = dim
             THEN << <<d2, d2 + 1>>, <<d2 + 1, d2>> >>
             ELSE << <<2 * j1, d2>>, <<2 * j1 + 1, d2>>,
                     <<2 * j1, d2 + 1>>, <<2 * j1 + 1, d2 + 1>> >>)
            \o SparseProbes(Tail(ca), dim)

\* dense: every literal i against 2*dim and 2*dim+1
RECURSIVE DenseProbes(_, _, _)
DenseProbes(i, n, dim) ==
    IF i >= n THEN <<>>
    ELSE << <<i, 2 * dim>>, <<i, 2 * dim + 1>> >> \o DenseProbes(i + 1, n, dim)

\* a probe that does not spare the diagonal
ProbeFails_diagonal(oo, q) == At(oo.mat, q[1], q[2]) # INFINITY

\* the probe makes the predicate return false: a finite bound (in the dense
\* loop, off the diagonal)
ProbeFails(oo, q) ==
    At(oo.mat, q[1], q[2]) # INFINITY /\ (oo.is_dense => q[1] # q[2])

opt_oct_is_dimension_unconstrained(o, dim) ==
    IF dim >= o.dim THEN Plain(FALSE, o, {})
    ELSE IF IsEmpty(o) THEN Plain(FALSE, o, {})
    ELSE LET oo == Pick(o)
             cl == find(oo.acl, dim)
         IN IF ~oo.is_dense /\ cl = 0 THEN Plain(TRUE, o, {})
            ELSE LET probes == IF oo.is_dense THEN DenseProbes(0, 2 * o.dim, dim)
                               ELSE SparseProbes(to_sorted_array(oo.acl[cl]), dim)
                     bad == {x \in DOMAIN probes : ProbeFails(oo, probes[x])}
                     stop == IF bad = {} THEN Len(probes) ELSE FirstOf(bad)
                     reads == {probes[x] : x \in 1 .. stop}
                 IN IF bad = {} THEN Plain(TRUE, o, reads)
                    \* the early returns of the sparse loop skip free(ca)
                    ELSE Result(FALSE, o, TRUE, TRUE, reads,
                                IF oo.is_dense THEN {} ELSE {"ca"})

(***************************** to_lincons_array *****************************)
\* opt_lincons_of_bound(pr,i,j,b): the constraint of the bound b of (i,j)
opt_lincons_of_bound(i, j, b) == [i |-> i, j |-> j, bound |-> b]

\* for (i=0;i<2*o->dim;i++) for (j=0;j<=(i|1);j++,m++): the last j of row i
DenseRowEnd_upto_i(i) == i
DenseRowEnd(i) == Or1(i)

\* the dense branch: the buffer is walked slot by slot while (i,j) runs over
\* the rows; ar gathers the constraints, rd the slots read
RECURSIVE DenseEmit(_, _, _, _, _, _, _)
DenseEmit(buf, dim, i, j, m, ar, rd) ==
    IF i >= 2 * dim THEN [ar |-> ar, reads |-> rd]
    ELSE LET skip == i = j \/ buf[m] = INFINITY
             ar1 == IF skip THEN ar ELSE Append(ar, opt_lincons_of_bound(i, j, buf[m]))
             rd1 == IF i = j THEN rd ELSE rd \cup {PairAt[m]}
         IN IF j + 1 <= DenseRowEnd(i)
            THEN DenseEmit(buf, dim, i, j + 1, m + 1, ar1, rd1)
            ELSE DenseEmit(buf, dim, i + 1, 0, m + 1, ar1, rd1)

\* a sparse branch that takes every stored pair off the diagonal
SparsePairs_all(oo, dim) == {q \in Stored(dim) : q[1] # q[2]}

\* the sparse branch: the pairs of one component, in row order
SparsePairs(oo, dim) ==
    {q \in Stored(dim) :
        /\ find(oo.acl, q[1] \div 2) # 0
        /\ find(oo.acl, q[2] \div 2) = find(oo.acl, q[1] \div 2)
        /\ q[1] # q[2]}
RECURSIVE SparseEmit(_, _, _)
SparseEmit(buf, todo, ar) ==
    IF todo = {} THEN ar
    ELSE LET q == CHOOSE x \in todo : \A y \in todo :
                      x[1] < y[1] \/ (x[1] = y[1] /\ x[2] <= y[2])
         IN SparseEmit(buf, todo \ {q},
                       IF At(buf, q[1], q[2]) = INFINITY THEN ar
                       ELSE Append(ar, opt_lincons_of_bound(q[1], q[2], At(buf, q[1], q[2]))))

opt_oct_to_lincons_array(conv, o) ==
    IF IsEmpty(o) THEN Plain(<<"unsat">>, o, {})
    ELSE LET oo == Pick(o)
         IN IF oo.is_dense
            THEN LET w == DenseEmit(oo.mat, o.dim, 0, 0, 0, <<>>, {})
                 IN FlagIf(conv, w.ar, o, w.reads)
            ELSE FlagIf(conv, SparseEmit(oo.mat, SparsePairs(oo, o.dim), <<>>),
                        o, SparsePairs(oo, o.dim))

(******************************* sat_lincons ********************************)
\* a test that takes > for >=
Saturates_never_strict(c, t0, t1) ==
    t0 <= 0 /\ (c # "EQ" \/ t1 <= 0)

\* the test of the bounds t0 = a + sup(-e), t1 = b + sup(e) against 0
Saturates(c, t0, t1) ==
    t0 <= 0 /\ (c # "SUP" \/ t0 < 0) /\ (c # "EQ" \/ t1 <= 0)

\* a test that takes every matrix for dense
Apart_never(oo, type, i, j) == FALSE

\* the sparse tests: the variable is in no component (UNARY), the two
\* variables are not in one component (BINARY)
Apart(oo, type, i, j) ==
    /\ ~oo.is_dense
    /\ IF type = "UNARY" THEN find(oo.acl, i) = 0 ELSE ~is_connected(oo.acl, i, j)

opt_oct_sat_lincons(ni, o, lincons) ==
    LET oo == Pick(o)
        b == oo.mat
        c == lincons.constyp
        u == opt_oct_uexpr_of_linexpr(lincons.linexpr0, o.intdim, o.dim)
        ui == IF u.coef_i = 1 THEN 2 * u.i ELSE 2 * u.i + 1
        uj == IF u.coef_j = 1 THEN 2 * u.j ELSE 2 * u.j + 1
        No(reads) == FlagIf(Inexact(ni, u.conv, o), FALSE, o, reads)
    IN IF c \in {"EQMOD", "DISEQ"} THEN Plain(FALSE, o, {})
       ELSE CASE u.type = "EMPTY" -> Plain(TRUE, o, {})
              [] u.type = "ZERO" ->
                   IF \/ c = "SUPEQ" /\ u.tmp[1] <= 0
                      \/ c = "SUP" /\ u.tmp[1] < 0
                      \/ c = "EQ" /\ u.tmp[1] = 0 /\ u.tmp[2] = 0
                   THEN Plain(TRUE, o, {}) ELSE No({})
              [] u.type = "UNARY" ->
                   LET out == Apart(oo, "UNARY", u.i, u.i)
                       t0 == BAdd(2 * u.tmp[1],
                                  IF out THEN INFINITY ELSE b[opt_matpos(ui, Xor1(ui))])
                       t1 == BAdd(2 * u.tmp[2],
                                  IF out THEN INFINITY ELSE b[opt_matpos(Xor1(ui), ui)])
                       rd == IF out THEN {} ELSE {<<ui, Xor1(ui)>>, <<Xor1(ui), ui>>}
                   IN IF Saturates(c, t0, t1) THEN Plain(TRUE, o, rd) ELSE No(rd)
              [] u.type = "BINARY" ->
                   LET out == Apart(oo, "BINARY", u.i, u.j)
                       t0 == BAdd(u.tmp[1],
                                  IF out THEN INFINITY ELSE b[opt_matpos2(uj, Xor1(ui))])
                       t1 == BAdd(u.tmp[2],
                                  IF out THEN INFINITY ELSE b[opt_matpos2(Xor1(uj), ui)])
                       rd == IF out THEN {} ELSE {<<uj, Xor1(ui)>>, <<Xor1(uj), ui>>}
                   IN IF Saturates(c, t0, t1) THEN Plain(TRUE, o, rd) ELSE No(rd)
              [] OTHER -> Flagged(FALSE, o, {})

\* opt_oct_sat_lincons_timing after the closure step
SatLinconsOn(ni, o1, lincons) ==
    IF IsEmpty(o1) THEN Plain(TRUE, o1, {})
    ELSE opt_oct_sat_lincons(ni, o1, lincons)

opt_oct_sat_lincons_timing(alg, ni, o, lincons) ==
    SatLinconsOn(ni, AutoClose(alg, o), lincons)


(************************** values and inputs *******************************)
\* a buffer nothing has initialised
JunkBuf(dim, junk) == [p \in 0 .. (opt_matsize(dim) - 1) |-> junk]
\* what an uninitialised double may hold
Junk == {-Unit, INFINITY}

\* top: no component, nothing closed; the dense matrix is all written, the
\* sparse one is not
OctTop(dim, intdim, dense, junk) ==
    [dim |-> dim, intdim |-> intdim,
     m |-> MkMat(IF dense THEN TopBuf(dim) ELSE JunkBuf(dim, junk), dense, <<>>),
     closed |-> NULL]

\* the coefficient vectors of the UNARY and BINARY shapes
UnitCoefs(dim) ==
    {cf \in [1 .. dim -> {-1, 0, 1}] : Cardinality({v \in 1 .. dim : cf[v] # 0}) \in {1, 2}}
ZeroCoefs(dim) == [v \in 1 .. dim |-> 0]
OtherCoefs(dim) == [v \in 1 .. dim |-> IF v = 1 THEN 2 ELSE 0]

\* the constraints e + c >= 0 that are met into a value
MeetSet(dim) ==
    {MkLincons("SUPEQ", MkLinexpr(cf, c, c, FALSE)) :
        cf \in UnitCoefs(dim),
        c \in ((-MaxMeetConst) .. MaxMeetConst) \ {0}}

\* the constraints asked about: exact shapes with scalar constants
AskSet(dim) ==
    {MkLincons(t, MkLinexpr(cf, c, c, FALSE)) :
        t \in {"EQ", "SUPEQ", "SUP"}, cf \in UnitCoefs(dim),
        c \in (-MaxAskConst) .. MaxAskConst}

\* constraints of every type and shape: ZERO, UNARY, BINARY and OTHER
\* expressions with the constant 0 or -1, or with an empty constant interval
AnySet(dim) ==
    {MkLincons(t, MkLinexpr(cf, k[1], k[2], FALSE)) :
        t \in ConsTypes,
        cf \in UnitCoefs(dim) \cup {ZeroCoefs(dim), OtherCoefs(dim)},
        k \in {<<0, 0>>, <<-1, -1>>, <<1, -1>>}}

\* the intervals asked about
AskItvs ==
    {Itv(a * Unit, b * Unit) : a \in {-MaxAskConst, 0}, b \in {0, MaxAskConst}}
      \cup {ItvTop}

NoCall == [fn |-> "none"]
NoWalk == [dim |-> 0, i |-> 0, j |-> 0, m |-> 0]
MkMan(alg, ni) ==
    [algorithm |-> alg, num_incomplete |-> ni, flag_exact |-> TRUE, flag_best |-> TRUE]
Uniform(a) == [f \in FunIds |-> a]

(****************************** the actions *********************************)
\* what a call leaves in the manager and in the call record.  The caller is
\* single-threaded: it makes a call once it has taken the result of the last
Returned(fn, arg, R) ==
    /\ call = NoCall
    /\ oct' = R.o
    /\ man' = [man EXCEPT !.flag_exact = R.flag_exact, !.flag_best = R.flag_best]
    /\ call' = [fn |-> fn, arg |-> arg, ret |-> R.ret, reads |-> R.reads,
                live |-> R.live]

\* a kept result has seen another predicate called since
Between(s) == IF s = NoCall THEN s ELSE [s EXCEPT !.between = TRUE]

\* opt_oct_meet_lincons_array with one constraint: the bound is lowered in
\* o->m and the cached closure is dropped
Meet ==
    /\ call = NoCall
    /\ ~IsEmpty(oct)
    /\ Cardinality(cons) < MaxCons
    /\ \E lc \in MeetSet(oct.dim) \ cons :
          /\ oct' = [oct EXCEPT !.m = opt_hmat_add_lincons(oct.m, lc, oct.intdim, oct.dim),
                            !.closed = NULL]
          /\ cons' = cons \cup {lc}
    /\ call' = NoCall
    /\ seen' = NoCall
    /\ UNCHANGED <<walk, oct2, man>>

IsBottom ==
    /\ Returned("is_bottom", <<>>,
                opt_oct_is_bottom(man.algorithm["IS_BOTTOM"], man.num_incomplete, oct))
    /\ seen' = Between(seen)
    /\ UNCHANGED <<walk, oct2, cons>>

IsTop ==
    /\ Returned("is_top", <<>>, opt_oct_is_top(oct))
    /\ seen' = Between(seen)
    /\ UNCHANGED <<walk, oct2, cons>>

IsLeq ==
    /\ oct2 # NULL
    /\ LET R == opt_oct_is_leq(man.algorithm["IS_LEQ"], man.num_incomplete, oct, oct2)
       IN Returned("is_leq", <<>>, R) /\ oct2' = R.o2
    /\ seen' = Between(seen)
    /\ UNCHANGED <<walk, cons>>

IsEq ==
    /\ oct2 # NULL
    /\ LET R == opt_oct_is_eq(man.algorithm["IS_EQ"], man.num_incomplete, oct, oct2)
       IN Returned("is_eq", <<>>, R) /\ oct2' = R.o2
    /\ seen' = Between(seen)
    /\ UNCHANGED <<walk, cons>>

ToBox ==
    /\ Returned("to_box", <<>>,
                opt_oct_to_box(man.algorithm["TO_BOX"], man.num_incomplete, FALSE, oct))
    /\ UNCHANGED <<walk, oct2, cons, seen>>

BoundDimension ==
    /\ \E d \in 0 .. oct.dim :
          Returned("bound_dimension", d,
                   opt_oct_bound_dimension(man.algorithm["BOUND_DIMENSION"],
                                           man.num_incomplete, FALSE, oct, d))
    /\ UNCHANGED <<walk, oct2, cons, seen>>

SatInterval ==
    /\ \E d \in 0 .. oct.dim, i \in AskItvs :
          Returned("sat_interval", <<d, i>>,
                   opt_oct_sat_interval(man.algorithm["SAT_INTERVAL"],
                                        man.num_incomplete, FALSE, oct, d, i))
    /\ UNCHANGED <<walk, oct2, cons, seen>>

IsDimensionUnconstrained ==
    /\ \E d \in 0 .. oct.dim :
          Returned("is_dimension_unconstrained", d,
                   opt_oct_is_dimension_unconstrained(oct, d))
    /\ UNCHANGED <<walk, oct2, cons, seen>>

ToLinconsArray ==
    /\ Returned("to_lincons_array", <<>>, opt_oct_to_lincons_array(FALSE, oct))
    /\ UNCHANGED <<walk, oct2, cons, seen>>

\* sat_lincons asked about one constraint of S
SatLinconsOf(S) ==
    /\ \E lc \in S :
          Returned("sat_lincons", lc,
                   opt_oct_sat_lincons_timing(man.algorithm["SAT_LINCONS"],
                                              man.num_incomplete, oct, lc))
    /\ UNCHANGED <<walk, oct2, cons, seen>>

SatLincons == SatLinconsOf(AskSet(oct.dim))

\* sat_lincons asked about a constraint of any type and shape
SatLinconsAny == SatLinconsOf(AnySet(oct.dim))

\* the caller takes the result of the last call
Consume ==
    /\ call # NoCall
    /\ call' = NoCall
    /\ UNCHANGED <<walk, oct, oct2, man, cons, seen>>

Init ==
    /\ \E d \in 1 .. MaxDim, dense \in BOOLEAN, junk \in Junk :
          oct = OctTop(d, 0, dense, junk)
    /\ oct2 = NULL
    /\ \E a \in {-1, 0} : man = MkMan(Uniform(a), FALSE)
    /\ call = NoCall
    /\ cons = {}
    /\ seen = NoCall
    /\ walk = NoWalk

Next ==
    \/ Meet
    \/ IsBottom
    \/ ToBox
    \/ BoundDimension
    \/ SatInterval
    \/ IsDimensionUnconstrained
    \/ ToLinconsArray
    \/ SatLincons
    \/ Consume

Spec == Init /\ [][Next]_vars

Smaller(a, b) == IF a <= b THEN a ELSE b

(************************ the flags of sat_lincons **************************)
InitFlags ==
    /\ \E d \in 1 .. MaxDim, k \in 0 .. MaxIntDim, dense \in BOOLEAN, junk \in Junk :
          oct = OctTop(d, Smaller(k, d), dense, junk)
    /\ oct2 = NULL
    /\ \E a \in {-1, 0}, ni \in BOOLEAN : man = MkMan(Uniform(a), ni)
    /\ call = NoCall
    /\ cons = {}
    /\ seen = NoCall
    /\ walk = NoWalk

NextFlags ==
    \/ IsBottom
    \/ SatLinconsAny
    \/ Consume

SpecFlags == InitFlags /\ [][NextFlags]_vars

(************************** two operands ************************************)
InitCmp ==
    /\ \E dense \in BOOLEAN, junk \in Junk :
          /\ \E d \in 1 .. MaxDim, k \in 0 .. MaxIntDim :
                oct = OctTop(d, Smaller(k, d), dense, junk)
          /\ \E d \in 1 .. MaxDim, k \in 0 .. MaxIntDim :
                oct2 = OctTop(d, Smaller(k, d), dense, junk)
    /\ \E a \in {-1, 0} : man = MkMan(Uniform(a), FALSE)
    /\ call = NoCall
    /\ cons = {}
    /\ seen = NoCall
    /\ walk = NoWalk

NextCmp ==
    \/ Meet
    \/ IsTop
    \/ IsLeq
    \/ IsEq
    \/ Consume

SpecCmp == InitCmp /\ [][NextCmp]_vars

(************************** a query asked twice *****************************)
\* the settings of the algorithm option that a behaviour with one kept query
\* and is_bottom between its calls can tell apart: a for the queries, b for
\* is_bottom
Settings ==
    {[f \in FunIds |-> IF f = "IS_BOTTOM" THEN b ELSE a] :
        a \in {-1, 0}, b \in {-1, 0}}

\* the read-only queries and their arguments
Queries(dim) ==
    {[fn |-> "to_box", arg |-> <<>>]}
      \cup {[fn |-> "bound_dimension", arg |-> d] : d \in Vars(dim)}
      \cup {[fn |-> "sat_interval", arg |-> <<d, Itv(-MaxAskConst * Unit, MaxAskConst * Unit)>>] :
                d \in Vars(dim)}
      \cup {[fn |-> "is_dimension_unconstrained", arg |-> d] : d \in Vars(dim)}
      \cup {[fn |-> "sat_lincons", arg |-> lc] :
                lc \in {x \in AskSet(dim) : x.constyp = "SUPEQ" /\ x.linexpr0.sup = 0}}

\* the call of the query q on o
Query(q, o) ==
    CASE q.fn = "to_box" ->
           opt_oct_to_box(man.algorithm["TO_BOX"], man.num_incomplete, FALSE, o)
      [] q.fn = "bound_dimension" ->
           opt_oct_bound_dimension(man.algorithm["BOUND_DIMENSION"], man.num_incomplete,
                                   FALSE, o, q.arg)
      [] q.fn = "sat_interval" ->
           opt_oct_sat_interval(man.algorithm["SAT_INTERVAL"], man.num_incomplete,
                                FALSE, o, q.arg[1], q.arg[2])
      [] q.fn = "is_dimension_unconstrained" ->
           opt_oct_is_dimension_unconstrained(o, q.arg)
      [] q.fn = "sat_lincons" ->
           opt_oct_sat_lincons_timing(man.algorithm["SAT_LINCONS"], man.num_incomplete,
                                      o, q.arg)
      [] q.fn = "to_lincons_array" -> opt_oct_to_lincons_array(FALSE, o)

\* a query is called and its result kept; settled tells that the closure
\* was cached, or the value found empty, when the call returned
Ask ==
    /\ seen = NoCall
    /\ \E q \in Queries(oct.dim) :
          LET R == Query(q, oct)
          IN /\ Returned(q.fn, q.arg, R)
             /\ seen' = [fn |-> q.fn, arg |-> q.arg, ret |-> R.ret,
                         settled |-> ~R.o.closed.is_null \/ IsEmpty(R.o),
                         between |-> FALSE]
    /\ UNCHANGED <<walk, oct2, cons>>

\* the kept query is called again with the same arguments
Again ==
    /\ seen # NoCall
    /\ Returned(seen.fn, seen.arg, Query(seen, oct))
    /\ UNCHANGED <<walk, oct2, cons, seen>>

InitRead ==
    /\ \E d \in 1 .. MaxDim, dense \in BOOLEAN, junk \in Junk :
          oct = OctTop(d, 0, dense, junk)
    /\ oct2 = NULL
    /\ \E f \in Settings : man = MkMan(f, FALSE)
    /\ call = NoCall
    /\ cons = {}
    /\ seen = NoCall
    /\ walk = NoWalk

NextRead ==
    \/ Meet
    \/ Ask
    \/ Again
    \/ IsBottom
    \/ Consume

SpecRead == InitRead /\ [][NextRead]_vars


(***************************** the index walk *******************************)
WalkInit ==
    /\ \E d \in 1 .. MaxWalkDim : walk = [dim |-> d, i |-> 0, j |-> 0, m |-> 0]
    /\ oct = NULL /\ oct2 = NULL /\ man = MkMan(Uniform(0), FALSE)
    /\ call = NoCall /\ cons = {} /\ seen = NoCall

WalkDone == walk.i >= 2 * walk.dim

\* one iteration of the inner loop: j++, m++, and i++ when the row ends
WalkStep ==
    /\ ~WalkDone
    /\ walk' = IF walk.j + 1 <= DenseRowEnd(walk.i)
               THEN [walk EXCEPT !.j = @ + 1, !.m = @ + 1]
               ELSE [walk EXCEPT !.i = @ + 1, !.j = 0, !.m = @ + 1]
    /\ UNCHANGED <<oct, oct2, man, call, cons, seen>>

SpecIndex == WalkInit /\ [][WalkStep]_vars

(************************** the concrete meaning ****************************)
\* The octagons the model builds have their vertices on the half-integer
\* grid, within GridMax of the origin when they are bounded in a direction
GridMax == MaxCons * MaxMeetConst + MaxAskConst + 1
Grid(dim) ==
    [1 .. dim -> {k * (Unit \div 2) : k \in (-2 * GridMax) .. (2 * GridMax)}]
\* the grid points that satisfy every constraint of S
Gamma(S, dim) == {pt \in Grid(dim) : \A lc \in S : Holds(lc, pt)}
\* q holds at every point of S
Entailed(S, dim, q) == \A pt \in Grid(dim) : (\A lc \in S : Holds(lc, pt)) => Holds(q, pt)
\* q with its constant lowered by one
Tighter(q) ==
    [q EXCEPT !.linexpr0.inf = @ - 1, !.linexpr0.sup = @ - 1]

\* the last call was fn and it read a closed matrix of an intdim = 0 value
OnClosed(fn) ==
    /\ call.fn = fn
    /\ oct.intdim = 0
    /\ ~oct.closed.is_null

(******************************** C1 ****************************************)
\* C1: on a dense value with intdim = 0 whose matrix is strongly closed,
\* sat_lincons answers true exactly when the constraint asked about holds at
\* every point that satisfies the constraints met into the value, for the
\* UNARY and BINARY shapes and the types SUPEQ, SUP and EQ
C1_Entailment ==
    (OnClosed("sat_lincons") /\ oct.closed.is_dense)
        => (call.ret = Entailed(cons, oct.dim, call.arg))

\* C1 witness: a true answer on a closed dense value for a bound that no
\* single constraint gives and that is tight
C1_Witness ==
    /\ OnClosed("sat_lincons") /\ oct.closed.is_dense
    /\ call.ret = TRUE
    /\ Cardinality(cons) = 2
    /\ \A lc \in cons : ~Entailed({lc}, oct.dim, call.arg)
    /\ ~Entailed(cons, oct.dim, Tighter(call.arg))
(******************************** C2 ****************************************)
\* a finite bound of an octagon made of the constraints met is at most the
\* sum of their constants; a coordinate that goes further on the grid is
\* unbounded
FiniteMax == MaxCons * MaxMeetConst * Unit
Widest(x) == IF x > FiniteMax THEN INFINITY ELSE IF x < -FiniteMax THEN -INFINITY ELSE x
MaxOf(S) == CHOOSE x \in S : \A y \in S : y <= x
MinOf(S) == CHOOSE x \in S : \A y \in S : x <= y
\* the values X_v takes in the octagon of S
Range(S, dim, v) ==
    LET xs == {pt[v + 1] : pt \in Gamma(S, dim)}
    IN Itv(Widest(MinOf(xs)), Widest(MaxOf(xs)))

\* C2: to_box on a closed non-bottom value with intdim = 0 gives each
\* variable v the interval [-m[2v,2v+1]/2, m[2v+1,2v]/2], which is the set of
\* values X_v takes in the octagon; a variable of no component of a sparse
\* value gets top; on a bottom value every interval is bottom
C2_ToBox ==
    /\ OnClosed("to_box") =>
          \A v \in Vars(oct.dim) :
             /\ call.ret[v] = Itv(-BHalf(Bound(oct.closed, 2 * v, 2 * v + 1)),
                                  BHalf(Bound(oct.closed, 2 * v + 1, 2 * v)))
             /\ call.ret[v] = Range(cons, oct.dim, v)
             /\ (~oct.closed.is_dense /\ find(oct.closed.acl, v) = 0)
                   => call.ret[v] = ItvTop
    /\ (call.fn = "to_box" /\ IsEmpty(oct)) =>
          \A v \in Vars(oct.dim) : call.ret[v] = ItvBottom

\* C2 witness: to_box on a closed sparse value of two variables answers a
\* finite interval for the bounded one and top for the one of no component
C2_Witness ==
    /\ OnClosed("to_box") /\ ~oct.closed.is_dense /\ oct.dim = 2
    /\ call.ret[0] = Itv(-Unit, Unit)
    /\ find(oct.closed.acl, 1) = 0 /\ call.ret[1] = ItvTop
(******************************** C3 ****************************************)
\* the last call is the kept query, with the same arguments
Repeated ==
    /\ seen # NoCall
    /\ call # NoCall
    /\ call.fn = seen.fn /\ call.arg = seen.arg

\* C3 as stated: two calls of the same read-only query with the same
\* arguments return the same result when nothing mutates the value between
\* them, whatever the algorithm flags and whatever predicates run between
C3_Repeatable_AsStated == Repeated => (call.ret = seen.ret)

\* C3: two calls of the same read-only query with the same arguments return
\* the same result when nothing mutates the value between them, provided the
\* closure was cached, or the value found empty, by the time the first of
\* them returned
C3_Repeatable == (Repeated /\ seen.settled) => (call.ret = seen.ret)

\* C3 witness: a query answered again, after is_bottom ran, on a value of two
\* constraints whose closure was cached when the query was first answered
C3_Witness ==
    /\ Repeated /\ seen.settled /\ seen.between
    /\ Cardinality(cons) = 2
    /\ ~oct.closed.is_null /\ oct.closed.mat # oct.m.mat
(******************************** C4 ****************************************)
\* the matrix of S met into oo, one constraint after the other
RECURSIVE MeetAll(_, _, _, _)
MeetAll(oo, S, intdim, dim) ==
    IF S = {} THEN oo
    ELSE LET lc == CHOOSE x \in S : TRUE
         IN MeetAll(opt_hmat_add_lincons(oo, lc, intdim, dim), S \ {lc}, intdim, dim)

\* the dense value of the constraints met into oct, closed
DenseTwin ==
    LET top == OctTop(oct.dim, oct.intdim, TRUE, INFINITY)
    IN opt_oct_cache_closure([top EXCEPT !.m = MeetAll(top.m, cons, oct.intdim, oct.dim)])

\* what sat_lincons answers on the closed dense value of the same constraints
DenseAnswer(lc) == opt_oct_sat_lincons(man.num_incomplete, DenseTwin, lc).ret

\* the constraint relates two variables that no component holds together
AcrossComponents(lc, acl) ==
    LET nz == NonZero(lc.linexpr0)
    IN /\ Cardinality(nz) = 2
       /\ ~\E x \in DOMAIN acl : nz \subseteq CompSet(acl[x])

Readers ==
    {"to_box", "bound_dimension", "sat_interval", "is_dimension_unconstrained",
     "sat_lincons", "to_lincons_array"}

\* the variables of the literals i and j are in one component of acl
Together(acl, i, j) ==
    \E x \in DOMAIN acl : {i \div 2, j \div 2} \subseteq CompSet(acl[x])

\* oct with its matrices converted to dense
Densified ==
    LET conv(oo) == IF oo.is_null THEN oo ELSE convert_to_dense_mat(oo, oct.dim)
    IN [oct EXCEPT !.m = conv(oct.m), !.closed = conv(oct.closed)]

\* the last call was a reader on a sparse matrix
OnSparse ==
    /\ call.fn \in Readers
    /\ ~IsEmpty(oct)
    /\ ~Pick(oct).is_dense

\* C5: on a sparse matrix the predicates read the bound of (i,j) only when
\* the variables of i and j are in one component, and they answer what they
\* answer on the matrix converted to dense, whatever the buffer holds outside
\* the components
C5_SparseReads ==
    OnSparse =>
        /\ \A q \in call.reads : Together(Pick(oct).acl, q[1], q[2])
        /\ call.ret = Query(call, Densified).ret

\* C5 witness: a BINARY constraint across two components is answered false
\* and nothing is read, while the buffer holds a finite value outside the
\* components
C5_Witness ==
    /\ OnSparse /\ call.fn = "sat_lincons"
    /\ AcrossComponents(call.arg, Pick(oct).acl)
    /\ Len(Pick(oct).acl) = 2
    /\ \E p \in DOMAIN Pick(oct).mat :
          /\ ~Together(Pick(oct).acl, PairAt[p][1], PairAt[p][2])
          /\ Pick(oct).mat[p] = -Unit
    /\ call.reads = {} /\ call.ret = FALSE
(******************************** C6 ****************************************)
\* the two operands differ in dim or in intdim
Mismatch == oct.dim # oct2.dim \/ oct.intdim # oct2.intdim

\* C6: is_leq and is_eq on operands that differ in dim or intdim return
\* false, leave flag_exact and flag_best as the entry reset put them, and
\* leave both operands as they were: no closure cached, no matrix nulled
C6_Mismatch ==
    [][(Mismatch /\ call'.fn \in {"is_leq", "is_eq"})
          => /\ call'.ret = FALSE
             /\ man'.flag_exact /\ man'.flag_best
             /\ oct' = oct /\ oct2' = oct2]_vars

\* C6 witness: is_leq with algorithm >= 0 has returned on operands of
\* different dimensions, the first one holding two constraints, unclosed
C6_Witness ==
    /\ call.fn = "is_leq" /\ Mismatch
    /\ man.algorithm["IS_LEQ"] >= 0
    /\ Cardinality(cons) = 2
    /\ oct.closed.is_null /\ ~oct.m.is_null
(******************************** C7 ****************************************)
\* C7: when sat_lincons returns false on a non-bottom value whose matrix is
\* not closed or whose intdim is greater than 0, flag_exact is false on
\* return, for every constraint type and every expression shape
C7_InexactSignalled ==
    (/\ call.fn = "sat_lincons"
     /\ call.ret = FALSE
     /\ ~IsEmpty(oct)
     /\ (oct.closed.is_null \/ oct.intdim > 0))
        => ~man.flag_exact
(******************************** C8 ****************************************)
\* C8: every temporary a predicate acquires is released before it returns,
\* on every return path; only the returned result remains allocated
C8_NoLeak == (call # NoCall) => (call.live = {})
(******************************** C9 ****************************************)
\* the dense value of the constraints met into oct, closed when oct is
DenseLike ==
    LET top == OctTop(oct.dim, oct.intdim, TRUE, INFINITY)
        met == [top EXCEPT !.m = MeetAll(top.m, cons, oct.intdim, oct.dim)]
    IN IF oct.closed.is_null /\ ~oct.m.is_null THEN met ELSE opt_oct_cache_closure(met)

\* every bound between a literal of v and another literal is +oo
NoBoundOn(oo, dim, v) ==
    \A l \in {2 * v, 2 * v + 1}, i \in Lits(dim) :
        i # l => (Bound(oo, i, l) = INFINITY /\ Bound(oo, l, i) = INFINITY)

\* C9: is_dimension_unconstrained(o, v) with v < dim answers false on a
\* bottom value and otherwise answers whether every bound between a literal
\* of v and another literal is +oo in the matrix that is read; the sparse
\* value answers as the dense value of the same constraints, and answers true
\* without reading when v is in no component
C9_Unconstrained ==
    (call.fn = "is_dimension_unconstrained" /\ call.arg < oct.dim) =>
        IF IsEmpty(oct) THEN call.ret = FALSE
        ELSE /\ call.ret = NoBoundOn(Pick(oct), oct.dim, call.arg)
             /\ ~Pick(oct).is_dense =>
                   /\ call.ret = opt_oct_is_dimension_unconstrained(DenseLike, call.arg).ret
                   /\ find(Pick(oct).acl, call.arg) = 0
                         => (call.ret = TRUE /\ call.reads = {})

\* C9 witness: on a sparse value of two variables the constrained one is
\* answered false and, in another call, the one of no component true
C9_Witness ==
    /\ call.fn = "is_dimension_unconstrained" /\ call.arg = 1
    /\ ~IsEmpty(oct) /\ ~Pick(oct).is_dense /\ oct.dim = 2
    /\ find(Pick(oct).acl, 1) = 0 /\ find(Pick(oct).acl, 0) # 0
    /\ call.ret = TRUE
    /\ ~NoBoundOn(Pick(oct), oct.dim, 0)
(******************************** C10 ***************************************)
\* the offset formula as the claim words it
StatedOffset(i, j) ==
    IF j <= i THEN (i * (i + 2)) \div 2 + j
    ELSE ((i + 1) * (i + 1)) \div 2 + (j - (i + 1))

\* C10 as stated: i*(i+2)/2 + j for j <= i, (i+1)*(i+1)/2 + (j-(i+1)) for
\* j = i+1, numbers the pairs in the order the dense branch of
\* to_lincons_array walks the buffer
C10_Offsets_AsStated ==
    ~WalkDone => (walk.m = StatedOffset(walk.i, walk.j))

\* C10: j + floor((i+1)*(i+1)/2) maps the pairs (i,j), 0 <= i < 2n,
\* 0 <= j <= i|1, one to one onto the offsets 0 .. 2n(n+1)-1 in row-major
\* order: it is the slot the dense walk of to_lincons_array is at when it
\* enumerates (i,j), and the walk ends at 2n(n+1)
C10_Offsets ==
    /\ ~WalkDone => (walk.m = opt_matpos(walk.i, walk.j))
    /\ WalkDone => (walk.m = opt_matsize(walk.dim))
    /\ walk.dim > 0 =>
          /\ {opt_matpos(q[1], q[2]) : q \in Stored(walk.dim)}
                = 0 .. (opt_matsize(walk.dim) - 1)
          /\ Cardinality(Stored(walk.dim)) = opt_matsize(walk.dim)

\* C10 witness: the walk is at the last pair of an even row, (2,3), whose
\* offset is 7
C10_Witness ==
    /\ walk.dim >= 2 /\ walk.i = 2 /\ walk.j = 3
    /\ walk.m = 7 /\ opt_matpos(2, 3) = 7

(******************************** C11 ***************************************)
(************************ the initialisers alone ****************************)
\* what the slots of a buffer hold before an initialiser is called: one
\* value everywhere, so that the buffer is coherent
IniFill == {-Unit, Unit, INFINITY}

\* the partitions of some of the variables: lab[v] is the component of v,
\* 0 for none
AclOf(lab, dim) ==
    [x \in 1 .. Cardinality({lab[v] : v \in Vars(dim)} \ {0}) |->
        SortedSeq({v \in Vars(dim) :
                      lab[v] = SortedSeq({lab[w] : w \in Vars(dim)} \ {0})[x]})]
Acls(dim) == {AclOf(lab, dim) : lab \in [Vars(dim) -> 0 .. dim]}

IniFuns == {"ini_relation", "ini_self_relation", "ini_comp_relations",
            "ini_comp_elem_relation", "handle_binary_relation"}

\* an initialiser has written buf into the matrix; the call keeps its
\* variable indices and the buffer it was called on
IniReturned(fn, ix, buf) ==
    /\ oct' = [oct EXCEPT !.m.mat = buf]
    /\ call' = [fn |-> fn, arg |-> ix, ret |-> "void", reads |-> {}, live |-> {},
                before |-> oct.m.mat]
    /\ UNCHANGED <<walk, oct2, man, cons, seen>>

IniRelation ==
    \E i \in 0 .. oct.dim, j \in 0 .. oct.dim :
        IniReturned("ini_relation", {i, j}, ini_relation(oct.m.mat, i, j, oct.dim))

IniSelfRelation ==
    \E i \in 0 .. oct.dim :
        IniReturned("ini_self_relation", {i}, ini_self_relation(oct.m.mat, i, oct.dim))

IniCompRelations ==
    \E x \in DOMAIN oct.m.acl, y \in DOMAIN oct.m.acl :
        IniReturned("ini_comp_relations", {},
                    ini_comp_relations(oct.m.mat, oct.m.acl[x], oct.m.acl[y], oct.dim))

IniCompElemRelation ==
    \E x \in DOMAIN oct.m.acl, j \in 0 .. oct.dim :
        IniReturned("ini_comp_elem_relation", {j},
                    ini_comp_elem_relation(oct.m.mat, oct.m.acl[x], j, oct.dim))

HandleBinaryRelation ==
    \E i \in 0 .. oct.dim, j \in 0 .. oct.dim :
        IniReturned("handle_binary_relation", {i, j},
                    handle_binary_relation(oct.m.mat, oct.m.acl, i, j, oct.dim))

InitIni ==
    /\ \E d \in 1 .. MaxDim, c \in IniFill :
          \E acl \in Acls(d) :
              oct = [dim |-> d, intdim |-> 0,
                     m |-> MkMat(JunkBuf(d, c), FALSE, acl), closed |-> NULL]
    /\ oct2 = NULL
    /\ man = MkMan(Uniform(0), FALSE)
    /\ call = NoCall
    /\ cons = {}
    /\ seen = NoCall
    /\ walk = NoWalk

NextIni ==
    \/ IniRelation
    \/ IniSelfRelation
    \/ IniCompRelations
    \/ IniCompElemRelation
    \/ HandleBinaryRelation

SpecIni == InitIni /\ [][NextIni]_vars

\* m[i,j] = m[j^1, i^1] for all literals i, j, read through opt_matpos2; the
\* two slots differ only on the diagonal, (i,i) against (i^1,i^1)
Coherent(buf, dim) ==
    \A i \in Lits(dim), j \in Lits(dim) : At(buf, i, j) = At(buf, Xor1(j), Xor1(i))

\* the last call was an initialiser given a variable index >= dim
OutOfRange == call.fn \in IniFuns /\ \E v \in call.arg : v >= oct.dim

\* the slots of the bounds of variable v alone
SelfSlots(v) ==
    {opt_matpos2(2 * v, 2 * v), opt_matpos2(2 * v + 1, 2 * v + 1),
     opt_matpos2(2 * v, 2 * v + 1), opt_matpos2(2 * v + 1, 2 * v)}

\* the slots the last call changed
Written == {p \in DOMAIN oct.m.mat : oct.m.mat[p] # call.before[p]}

\* C11 as stated: the initialisers keep the matrix coherent, and a call of
\* any of them with a variable index >= dim changes nothing
C11_Coherence_AsStated ==
    /\ Coherent(oct.m.mat, oct.dim)
    /\ OutOfRange => Written = {}

\* C11: the initialisers keep the matrix coherent, the diagonal pairs
\* included; ini_relation, ini_self_relation and ini_comp_elem_relation given
\* a variable index >= dim change nothing; handle_binary_relation given one
\* index >= dim writes at most the four slots of the other variable's own
\* bounds, and only when that variable is in no component
C11_Coherence ==
    /\ Coherent(oct.m.mat, oct.dim)
    /\ (OutOfRange /\ call.fn # "handle_binary_relation") => Written = {}
    /\ (OutOfRange /\ call.fn = "handle_binary_relation") =>
          Written \subseteq
              UNION {SelfSlots(v) :
                        v \in {w \in call.arg : w < oct.dim /\ find(oct.m.acl, w) = 0}}

\* C11 witness: handle_binary_relation has reset the bounds between two
\* components of one variable each, and the matrix it wrote is coherent
C11_Witness ==
    /\ call.fn = "handle_binary_relation"
    /\ call.arg = {0, 1}
    /\ find(oct.m.acl, 0) # 0 /\ find(oct.m.acl, 1) # 0
    /\ find(oct.m.acl, 0) # find(oct.m.acl, 1)
    /\ Written # {}
    /\ Coherent(oct.m.mat, oct.dim)

(******************************** C12 ***************************************)
(************************* every predicate **********************************)
\* the second operand is top of the dimensions of the first
InitAll ==
    /\ \E d \in 1 .. MaxDim, dense \in BOOLEAN, junk \in Junk :
          /\ oct = OctTop(d, 0, dense, junk)
          /\ oct2 = OctTop(d, 0, dense, junk)
    /\ \E a \in {-1, 0} : man = MkMan(Uniform(a), FALSE)
    /\ call = NoCall
    /\ cons = {}
    /\ seen = NoCall
    /\ walk = NoWalk

\* sat_lincons asked whether e >= 0, e of UNARY or BINARY shape
SatLinconsSupeq ==
    SatLinconsOf({lc \in AskSet(oct.dim) :
                     lc.constyp = "SUPEQ" /\ lc.linexpr0.sup = 0})

NextAll ==
    \/ Meet
    \/ IsBottom
    \/ IsTop
    \/ IsLeq
    \/ IsEq
    \/ ToBox
    \/ BoundDimension
    \/ SatInterval
    \/ IsDimensionUnconstrained
    \/ ToLinconsArray
    \/ SatLinconsSupeq
    \/ Consume

SpecAll == InitAll /\ [][NextAll]_vars

\* C12: with algorithm >= 0, is_bottom returns true exactly when the
\* constraints met into the value have no rational solution, and leaves the
\* value with both matrices null (true) or with a closed matrix (false);
\* is_bottom returns false on a value left without a closed matrix only when
\* algorithm < 0; and no step makes an empty value non-empty
C12_Definitive ==
    [][/\ (call'.fn = "is_bottom" /\ man.algorithm["IS_BOTTOM"] >= 0) =>
             /\ call'.ret = (Gamma(cons, oct.dim) = {})
             /\ IF call'.ret THEN IsEmpty(oct') ELSE ~oct'.closed.is_null
       /\ (call'.fn = "is_bottom" /\ ~call'.ret /\ oct'.closed.is_null) =>
             /\ man.algorithm["IS_BOTTOM"] < 0
             /\ ~man'.flag_exact /\ ~man'.flag_best
       /\ IsEmpty(oct) => IsEmpty(oct')]_vars

\* C12 witness: is_bottom with algorithm >= 0 has returned true on a value
\* that two contradicting constraints were met into and that no predicate
\* had closed, and both matrices are null
C12_Witness ==
    /\ call.fn = "is_bottom" /\ call.ret = TRUE
    /\ man.algorithm["IS_BOTTOM"] >= 0
    /\ Cardinality(cons) = 2
    /\ Gamma(cons, oct.dim) = {}
    /\ \A lc \in cons : Gamma({lc}, oct.dim) # {}
    /\ IsEmpty(oct)

(******************************** C13 ***************************************)
(********************** two values compared *********************************)
\* the constraints e >= 1, e of UNARY or BINARY shape
CmpPool(dim) == {lc \in MeetSet(dim) : lc.linexpr0.sup < 0}
\* the sets of at most MaxCons of them
CmpSets(dim) == {S \in SUBSET CmpPool(dim) : Cardinality(S) <= MaxCons}
\* those whose BINARY constraints have the coefficient 1 on the last variable
CmpSets2(dim) ==
    {S \in CmpSets(dim) :
        \A lc \in S : Cardinality(NonZero(lc.linexpr0)) = 2 => lc.linexpr0.coef[dim] = 1}

\* the value of the constraints S met into top, nothing closed
ValueOf(S, dim, dense, junk) ==
    [dim |-> dim, intdim |-> 0,
     m |-> MeetAll(OctTop(dim, 0, dense, junk).m, S, 0, dim),
     closed |-> NULL]

\* is_leq(o, o) and is_eq(o, o): the two operands are one object, so the
\* closure cached through the first is there in the second
opt_oct_is_leq_same(alg, ni, o) == IsLeqOf(ni, AutoClose(alg, o), AutoClose(alg, o))
opt_oct_is_eq_same(alg, ni, o) == IsEqOf(ni, AutoClose(alg, o), AutoClose(alg, o))

\* the last answers of is_leq(A,B), is_leq(B,A) and is_eq(A,B) on the pair
\* (oct, oct2); b is what was met into oct2
\* (an answer not got yet is the empty set)
NoAnswers(b) == [b |-> b, ab |-> {}, ba |-> {}, eq |-> {}]

\* a comparison has returned R; first and second are its operands after it
Compared(fn, arg, R, first, second, answers) ==
    /\ oct' = first
    /\ oct2' = second
    /\ man' = [man EXCEPT !.flag_exact = R.flag_exact, !.flag_best = R.flag_best]
    /\ call' = [fn |-> fn, arg |-> arg, ret |-> R.ret, reads |-> R.reads,
                live |-> R.live]
    /\ seen' = answers
    /\ UNCHANGED <<walk, cons>>

\* is_leq(oct, oct2)
LeqOf(R) == Compared("is_leq", "AB", R, R.o, R.o2, [seen EXCEPT !.ab = {R.ret}])
LeqAB == LeqOf(opt_oct_is_leq(man.algorithm["IS_LEQ"], man.num_incomplete, oct, oct2))

\* is_leq(oct2, oct)
LeqBackOf(R) == Compared("is_leq", "BA", R, R.o2, R.o, [seen EXCEPT !.ba = {R.ret}])
LeqBA == LeqBackOf(opt_oct_is_leq(man.algorithm["IS_LEQ"], man.num_incomplete, oct2, oct))

\* is_eq(oct, oct2)
EqOf(R) == Compared("is_eq", "AB", R, R.o, R.o2, [seen EXCEPT !.eq = {R.ret}])
EqAB == EqOf(opt_oct_is_eq(man.algorithm["IS_EQ"], man.num_incomplete, oct, oct2))

\* is_leq(oct, oct)
LeqSameOf(R) == Compared("is_leq", "AA", R, R.o, oct2, seen)
LeqAA == LeqSameOf(opt_oct_is_leq_same(man.algorithm["IS_LEQ"], man.num_incomplete, oct))

\* is_eq(oct, oct)
EqSameOf(R) == Compared("is_eq", "AA", R, R.o, oct2, seen)
EqAA == EqSameOf(opt_oct_is_eq_same(man.algorithm["IS_EQ"], man.num_incomplete, oct))

InitPair ==
    /\ \E d \in 1 .. MaxDim, dense \in BOOLEAN :
          \E A \in CmpSets(d), B \in CmpSets2(d) :
              /\ oct = ValueOf(A, d, dense, -Unit)
              /\ oct2 = ValueOf(B, d, dense, -Unit)
              /\ cons = A
              /\ seen = NoAnswers(B)
    /\ man = MkMan(Uniform(0), FALSE)
    /\ call = NoCall
    /\ walk = NoWalk

NextPair ==
    \/ LeqAB
    \/ LeqBA
    \/ EqAB
    \/ LeqAA
    \/ EqAA

SpecPair == InitPair /\ [][NextPair]_vars

\* both predicates close their operands
ClosingBoth == man.algorithm["IS_LEQ"] >= 0 /\ man.algorithm["IS_EQ"] >= 0

\* C13: with algorithm >= 0, whatever calls came before, the last answers
\* of is_eq(A,B), is_leq(A,B) and is_leq(B,A) satisfy eq = (ab and ba);
\* is_leq(A,A) and is_eq(A,A) answer true; and is_leq(A,B) answers true
\* when the constraints of A have no solution
C13_MutualInclusion ==
    ClosingBoth =>
        /\ (seen.eq # {} /\ seen.ab # {} /\ seen.ba # {}) =>
               (seen.eq = {TRUE} <=> (seen.ab = {TRUE} /\ seen.ba = {TRUE}))
        /\ (call.fn \in {"is_leq", "is_eq"} /\ call.arg = "AA") => call.ret = TRUE
        /\ seen.ab = {FALSE} => Gamma(cons, oct.dim) # {}

\* C13 witness: is_leq(A,B) answered true before anything closed B, is_leq(B,A)
\* answered false, and is_eq(A,B), called last, answered false
C13_Witness ==
    /\ ClosingBoth
    /\ call.fn = "is_eq" /\ call.arg = "AB"
    /\ seen.ab = {TRUE} /\ seen.ba = {FALSE} /\ seen.eq = {FALSE}
    /\ Cardinality(cons) = 2 /\ Cardinality(seen.b) = 1
    /\ ~(seen.b \subseteq cons)
    /\ ~oct.m.is_dense

(******************************** C14 ***************************************)
\* the stored pairs to_lincons_array owes a constraint for: off the
\* diagonal, with a finite bound, and in a sparse matrix between variables
\* of one component
Owed(oo, dim) ==
    {q \in Stored(dim) :
        /\ q[1] # q[2]
        /\ oo.is_dense \/ is_connected(oo.acl, q[1] \div 2, q[2] \div 2)
        /\ At(oo.mat, q[1], q[2]) # INFINITY}

\* C14: to_lincons_array on a value that is not empty returns one constraint
\* for each owed pair, with the bound the matrix holds for it, and nothing
\* else, so no more than the 2*dim*(dim+1) it allocated; on an empty value
\* it returns the single unsatisfiable constraint
C14_OnePerEntry ==
    (call.fn = "to_lincons_array") =>
        IF IsEmpty(oct) THEN call.ret = <<"unsat">>
        ELSE /\ {call.ret[x] : x \in DOMAIN call.ret}
                  = {opt_lincons_of_bound(q[1], q[2], At(Pick(oct).mat, q[1], q[2])) :
                        q \in Owed(Pick(oct), oct.dim)}
             /\ Len(call.ret) = Cardinality(Owed(Pick(oct), oct.dim))
             /\ Len(call.ret) <= opt_matsize(oct.dim)
             /\ \A x \in DOMAIN call.ret :
                   call.ret[x].i # call.ret[x].j /\ call.ret[x].bound # INFINITY

\* C14 witness: to_lincons_array has returned constraints on a sparse
\* matrix that holds a finite value in a slot between variables of
\* different components, which it did not emit
C14_Witness ==
    /\ call.fn = "to_lincons_array"
    /\ ~IsEmpty(oct) /\ ~Pick(oct).is_dense
    /\ Len(call.ret) >= 2
    /\ \E q \in Stored(oct.dim) :
          /\ q[1] \div 2 # q[2] \div 2
          /\ At(Pick(oct).mat, q[1], q[2]) # INFINITY
          /\ ~is_connected(Pick(oct).acl, q[1] \div 2, q[2] \div 2)
          /\ \A x \in DOMAIN call.ret : <<call.ret[x].i, call.ret[x].j>> # q
====
